---- MODULE Spec2Model ----
(***************************************************************************)
(* ExpenseBot (app.py): a Telegram text message is either answered by the  *)
(* static help handler or run through the ingestion pipeline               *)
(*   extract_expense_from_query -> insert_expense -> reply.                *)
(* The model keeps the sqlite table `expenses` (committed rows), the rows  *)
(* of the connection's open transaction, the AUTOINCREMENT counter, and a  *)
(* record of what the handling of the latest message did.                  *)
(* Strings that the code parses or formats are sequences of one-character  *)
(* strings, so that strptime / strftime / the command filter are computed. *)
(***************************************************************************)
EXTENDS Integers, Sequences, FiniteSets, TLC

VARIABLES
    expenses,       \* committed rows of table expenses, in insertion order
    pending,        \* rows inserted in the connection's open transaction
    seq,            \* committed sqlite_sequence value for expenses
    pendingSeq,     \* sqlite_sequence value as seen inside the transaction
    assigned,       \* history: the ids INSERT statements have handed out
    clock,          \* number of messages handled so far (datetime.now())
    glibcYear,      \* TRUE: the C library's %Y does not zero-pad the year
    last,           \* what the handling of the latest message did
    dateIn,         \* date normalisation on its own: the input string
    dateOut         \* date normalisation on its own: the outcome

vars == <<expenses, pending, seq, pendingSeq, assigned, clock, glibcYear,
          last, dateIn, dateOut>>

\* ---------------------------------------------------------------- bounds
MaxMessages == 3

\* ------------------------------------------------------------ characters
DigitChars == <<"0", "1", "2", "3", "4", "5", "6", "7", "8", "9">>

IsDigit(c) == \E i \in 1..10 : DigitChars[i] = c

DigitVal(c) == (CHOOSE i \in 1..10 : DigitChars[i] = c) - 1

IsDigit19(c) == IsDigit(c) /\ c # "0"

\* n written with at least `width` decimal digits (zero padded)
RECURSIVE Digits(_, _)
Digits(n, width) ==
    IF n < 10 /\ width <= 1 THEN <<DigitChars[n + 1]>>
    ELSE Append(Digits(n \div 10, width - 1), DigitChars[(n % 10) + 1])

\* --------------------------------------------------------- JSON values
Str(s)  == [t |-> "str",  s |-> s,    n |-> 0]
Num(n)  == [t |-> "num",  s |-> <<>>, n |-> n]
Null    == [t |-> "null", s |-> <<>>, n |-> 0]
List    == [t |-> "list", s |-> <<>>, n |-> 0]

\* ------------------------------------------------------------ calendar
IsLeap(y) == (y % 4 = 0 /\ y % 100 # 0) \/ y % 400 = 0

DaysInMonth(y, m) ==
    IF m = 2 THEN (IF IsLeap(y) THEN 29 ELSE 28)
    ELSE IF m \in {4, 6, 9, 11} THEN 30 ELSE 31

\* regex group of %d : 3[0-1]|[1-2]\d|0[1-9]|[1-9]| [1-9]
DayTok(tok) ==
    \/ /\ Len(tok) = 2
       /\ \/ tok[1] = "3" /\ tok[2] \in {"0", "1"}
          \/ tok[1] \in {"1", "2"} /\ IsDigit(tok[2])
          \/ tok[1] = "0" /\ IsDigit19(tok[2])
          \/ tok[1] = " " /\ IsDigit19(tok[2])
    \/ Len(tok) = 1 /\ IsDigit19(tok[1])

\* regex group of %m : 1[0-2]|0[1-9]|[1-9]
MonthTok(tok) ==
    \/ /\ Len(tok) = 2
       /\ \/ tok[1] = "1" /\ tok[2] \in {"0", "1", "2"}
          \/ tok[1] = "0" /\ IsDigit19(tok[2])
    \/ Len(tok) = 1 /\ IsDigit19(tok[1])

\* regex group of %Y : \d\d\d\d
YearTok(tok) == Len(tok) = 4 /\ \A i \in 1..4 : IsDigit(tok[i])

RECURSIVE TokVal(_)
TokVal(tok) ==
    IF tok = <<>> THEN 0
    ELSE IF tok[Len(tok)] = " " THEN 0
    ELSE 10 * TokVal(SubSeq(tok, 1, Len(tok) - 1)) + DigitVal(tok[Len(tok)])

NoDate == [ok |-> FALSE, d |-> 0, m |-> 0, y |-> 0]

Min(S) == CHOOSE k \in S : \A j \in S : k <= j
Max(S) == CHOOSE k \in S : \A j \in S : j <= k

\* datetime(year, month, day): ValueError outside the calendar
DateOf(d, m, y) ==
    IF y < 1 \/ d > DaysInMonth(y, m) THEN NoDate
    ELSE [ok |-> TRUE, d |-> d, m |-> m, y |-> y]

\* the three groups the pattern (?P<d>..)/(?P<m>..)/(?P<Y>..) has to match
DateTokens(dt, mt, yt) ==
    IF DayTok(dt) /\ MonthTok(mt) /\ YearTok(yt)
    THEN DateOf(TokVal(dt), TokVal(mt), TokVal(yt))
    ELSE NoDate

\* no group matches a "/", and nothing may follow the year, so the string
\* matches only if it has exactly two "/" (at the positions in sl)
SplitDate(s, sl) ==
    IF Cardinality(sl) # 2 THEN NoDate
    ELSE DateTokens(SubSeq(s, 1, Min(sl) - 1),
                    SubSeq(s, Min(sl) + 1, Max(sl) - 1),
                    SubSeq(s, Max(sl) + 1, Len(s)))

\* datetime.strptime(v, "%d/%m/%Y"): a non-string raises TypeError, a string
\* the pattern does not match completely, or that names no calendar date,
\* raises ValueError (ok = FALSE in both cases)
strptime(v) ==
    IF v.t # "str" THEN NoDate
    ELSE SplitDate(v.s, {i \in 1..Len(v.s) : v.s[i] = "/"})

\* date_obj.strftime("%Y-%m-%d"); %Y is handed to the C library, which on
\* glibc writes years below 1000 without leading zeros
strftime(dt, unpadded) ==
    Digits(dt.y, IF unpadded THEN 1 ELSE 4) \o <<"-">> \o
    Digits(dt.m, 2) \o <<"-">> \o Digits(dt.d, 2)

Formatted(date_obj, unpadded) ==
    IF date_obj.ok
    THEN [ok |-> TRUE, s |-> strftime(date_obj, unpadded)]
    ELSE [ok |-> FALSE, s |-> <<>>]

\* lines 97-98 of insert_expense: the DD/MM/YYYY value as stored
FormattedDate(v, unpadded) == Formatted(strptime(v), unpadded)

\* ------------------------------------------------- command recognition
FirstAt(s, hits) == IF hits = {} THEN s ELSE SubSeq(s, 1, Min(hits) - 1)

\* s up to, not including, the first occurrence of c
PrefixUntil(s, c) == FirstAt(s, {i \in 1..Len(s) : s[i] = c})

\* telebot's util.extract_command: text.split()[0].split('@')[0][1:] when
\* the text starts with '/', else None (here <<"None">>)
extract_command(text) ==
    IF Len(text) > 0 /\ text[1] = "/"
    THEN Tail(PrefixUntil(PrefixUntil(text, " "), "@"))
    ELSE <<"None">>

Commands == {<<"s", "t", "a", "r", "t">>, <<"h", "e", "l", "p">>}

\* the filters of the two registered handlers
HandlerMatches(h, text) ==
    IF h = "send_welcome" THEN extract_command(text) \in Commands
    ELSE TRUE

\* faulty variant: the catch-all handler is registered first
Handlers_CatchAllFirst == <<"handle_message", "send_welcome">>

\* handlers in registration order; telebot runs the first whose filters pass
Handlers == <<"send_welcome", "handle_message">>

Dispatch(text) ==
    Handlers[CHOOSE i \in 1..Len(Handlers) :
                /\ HandlerMatches(Handlers[i], text)
                /\ \A j \in 1..(i - 1) : ~HandlerMatches(Handlers[j], text)]

\* ------------------------------------------------------------ the store
\* the connection's view of the table: committed rows, then pending ones
Table(db) == db.expenses \o db.pending

Db == [expenses |-> expenses, pending |-> pending,
       seq |-> seq, pendingSeq |-> pendingSeq]

Fields == {"expense_name", "amount", "category", "date"}

\* what json.loads returned: a dict (the keys it has, and their values), or
\* some other JSON value
Dict(has, name, amount, category, date) ==
    [dict |-> TRUE, has |-> has, expense_name |-> name, amount |-> amount,
     category |-> category, date |-> date]

NonDict == [dict |-> FALSE, has |-> {}, expense_name |-> Null,
            amount |-> Null, category |-> Null, date |-> Null]

\* faulty variant: the id is taken from the committed counter, ignoring the rows
\* of the open transaction
Execute_CommittedCounter(db, data, formatted_date, logged_at, outcome) ==
    IF \E f \in {"expense_name", "amount", "category"} : data[f].t = "list"
    THEN [exc |-> TRUE, ran |-> "bind", lastrowid |-> 0, db |-> db]
    ELSE IF outcome = "ok"
    THEN [exc |-> FALSE, ran |-> "ok", lastrowid |-> db.seq + 1,
          db  |-> [db EXCEPT
                    !.pending = Append(@,
                        [id           |-> db.seq + 1,
                         expense_name |-> data.expense_name,
                         amount       |-> data.amount,
                         category     |-> data.category,
                         date         |-> formatted_date,
                         logged_at    |-> logged_at]),
                    !.pendingSeq = db.seq + 1]]
    ELSE IF outcome = "error"
    THEN [exc |-> TRUE, ran |-> "error", lastrowid |-> 0, db |-> db]
    ELSE [exc |-> TRUE, ran |-> "rollback", lastrowid |-> 0,
          db  |-> [db EXCEPT !.pending = <<>>, !.pendingSeq = db.seq]]

\* cur.execute(INSERT ...): sqlite3 opens a transaction on the first INSERT;
\* id comes from AUTOINCREMENT (one more than the largest id the table has
\* held, kept in sqlite_sequence, which the transaction covers).
\* outcome "ok": the row is in the open transaction; "error": the statement
\* raises and is undone; "rollback": it raises and sqlite rolls the whole
\* transaction back (SQLITE_IOERR, SQLITE_FULL ...).  A value sqlite3 cannot
\* bind (a JSON list or object) raises before the statement runs.
Execute(db, data, formatted_date, logged_at, outcome) ==
    IF \E f \in {"expense_name", "amount", "category"} : data[f].t = "list"
    THEN [exc |-> TRUE, ran |-> "bind", lastrowid |-> 0, db |-> db]
    ELSE IF outcome = "ok"
    THEN [exc |-> FALSE, ran |-> "ok", lastrowid |-> db.pendingSeq + 1,
          db  |-> [db EXCEPT
                    !.pending = Append(@,
                        [id           |-> db.pendingSeq + 1,
                         expense_name |-> data.expense_name,
                         amount       |-> data.amount,
                         category     |-> data.category,
                         date         |-> formatted_date,
                         logged_at    |-> logged_at]),
                    !.pendingSeq = @ + 1]]
    ELSE IF outcome = "error"
    THEN [exc |-> TRUE, ran |-> "error", lastrowid |-> 0, db |-> db]
    ELSE [exc |-> TRUE, ran |-> "rollback", lastrowid |-> 0,
          db  |-> [db EXCEPT !.pending = <<>>, !.pendingSeq = db.seq]]

\* faulty variant: a commit replaces the table's rows by the transaction's
Commit_Overwrite(db, outcome) ==
    IF outcome = "ok"
    THEN [exc |-> FALSE,
          db  |-> [db EXCEPT !.expenses = db.pending,
                             !.pending = <<>>,
                             !.seq = db.pendingSeq]]
    ELSE IF outcome = "busy"
    THEN [exc |-> TRUE, db |-> db]
    ELSE [exc |-> TRUE,
          db  |-> [db EXCEPT !.pending = <<>>, !.pendingSeq = db.seq]]

\* conn.commit(): "ok" makes the open transaction's rows durable; "busy"
\* raises and leaves the transaction open (SQLITE_BUSY); "rollback" raises
\* after sqlite rolled the transaction back
Commit(db, outcome) ==
    IF outcome = "ok"
    THEN [exc |-> FALSE,
          db  |-> [db EXCEPT !.expenses = @ \o db.pending,
                             !.pending = <<>>,
                             !.seq = db.pendingSeq]]
    ELSE IF outcome = "busy"
    THEN [exc |-> TRUE, db |-> db]
    ELSE [exc |-> TRUE,
          db  |-> [db EXCEPT !.pending = <<>>, !.pendingSeq = db.seq]]

Committed(c, cm, rowid) ==
    [exc |-> c.exc, db |-> c.db, ex |-> "ok", cm |-> cm, lastrowid |-> rowid]

\* lines 113-114: commit, return
CommitStep(e, cm) ==
    IF e.exc
    THEN [exc |-> TRUE, db |-> e.db, ex |-> e.ran, cm |-> "none", lastrowid |-> 0]
    ELSE Committed(Commit(e.db, cm), cm, e.lastrowid)

\* faulty variant: the insert runs whatever the date conversion gave
ExecuteStep_NoDateCheck(db, expense_data, fd, now, ex, cm) ==
    IF ~(Fields \subseteq expense_data.has)
    THEN [exc |-> TRUE, db |-> db, ex |-> "none", cm |-> "none", lastrowid |-> 0]
    ELSE CommitStep(Execute(db, expense_data, fd.s, now, ex), cm)

\* lines 100-111: timestamp, build the parameter tuple, execute
ExecuteStep(db, expense_data, fd, now, ex, cm) ==
    IF ~fd.ok \/ ~(Fields \subseteq expense_data.has)
    THEN [exc |-> TRUE, db |-> db, ex |-> "none", cm |-> "none", lastrowid |-> 0]
    ELSE CommitStep(Execute(db, expense_data, fd.s, now, ex), cm)

\* the try block of insert_expense (lines 96-114); exc: an exception left it
InsertBody(db, expense_data, now, ex, cm, unpadded) ==
    IF ~expense_data.dict \/ "date" \notin expense_data.has
    THEN [exc |-> TRUE, db |-> db, ex |-> "none", cm |-> "none", lastrowid |-> 0]
    ELSE ExecuteStep(db, expense_data,
                     FormattedDate(expense_data.date, unpadded), now, ex, cm)

\* faulty variant: no except clause, the exception leaves insert_expense
Contained_Propagates(b) ==
    [raised |-> b.exc, ret |-> ~b.exc, db |-> b.db, ex |-> b.ex, cm |-> b.cm,
     lastrowid |-> b.lastrowid]

\* lines 115-117: except Exception -> print, return False
Contained(b) ==
    [raised |-> FALSE, ret |-> ~b.exc, db |-> b.db, ex |-> b.ex, cm |-> b.cm,
     lastrowid |-> b.lastrowid]

insert_expense(db, expense_data, now, ex, cm, unpadded) ==
    Contained(InsertBody(db, expense_data, now, ex, cm, unpadded))

\* ------------------------------------------------------------ extractor
\* what the model call did: raised, or returned text that json.loads
\* rejects, or text that parses to data
CallError     == [call |-> "error", json |-> FALSE, data |-> NonDict]
BadJson       == [call |-> "ok", json |-> FALSE, data |-> NonDict]
Returned(d)   == [call |-> "ok", json |-> TRUE, data |-> d]

NoError == "none"

extract_expense_from_query(response) ==
    IF response.call = "error"
    THEN [exc |-> "APIError", data |-> NonDict]
    ELSE IF ~response.json
    THEN [exc |-> "JSONDecodeError", data |-> NonDict]
    ELSE [exc |-> NoError, data |-> response.data]

\* --------------------------------------------------------- orchestrator
Message(kind, err, data) == [kind |-> kind, err |-> err, data |-> data]

NoInsert == [called |-> FALSE, ret |-> FALSE, raised |-> FALSE,
             ex |-> "none", cm |-> "none", lastrowid |-> 0]

Failure(exc, db, insert) ==
    [exc |-> exc, db |-> db, insert |-> insert, success |-> FALSE,
     message |-> Message("none", NoError, NonDict)]

\* lines 131-142: the result for what insert_expense returned
AfterInsert(data, i) ==
    IF i.raised
    THEN Failure("StoreError", i.db,
                 [called |-> TRUE, ret |-> FALSE, raised |-> TRUE,
                  ex |-> i.ex, cm |-> i.cm, lastrowid |-> i.lastrowid])
    ELSE [exc |-> NoError, db |-> i.db,
          insert |-> [called |-> TRUE, ret |-> i.ret, raised |-> FALSE,
                      ex |-> i.ex, cm |-> i.cm, lastrowid |-> i.lastrowid],
          success |-> i.ret,
          message |-> IF i.ret THEN Message("added", NoError, data)
                      ELSE Message("insert_failed", NoError, NonDict)]

\* faulty variant: the extractor's failure does not stop the run
AfterExtract_NoStop(db, x, now, ex, cm, unpadded) ==
    AfterInsert(x.data, insert_expense(db, x.data, now, ex, cm, unpadded))

\* lines 127-131: extract, then insert; an exception skips the rest
AfterExtract(db, x, now, ex, cm, unpadded) ==
    IF x.exc # NoError THEN Failure(x.exc, db, NoInsert)
    ELSE AfterInsert(x.data, insert_expense(db, x.data, now, ex, cm, unpadded))

\* the try block of process_user_query (lines 126-142); exc: an exception
\* left it
ProcessBody(db, response, now, ex, cm, unpadded) ==
    AfterExtract(db, extract_expense_from_query(response), now, ex, cm, unpadded)

\* faulty variant: no except clause, the exception leaves process_user_query
Caught_Reraise(b) ==
    [raised |-> b.exc # NoError, db |-> b.db, insert |-> b.insert,
     success |-> IF b.exc # NoError THEN FALSE ELSE b.success,
     message |-> b.message]

\* lines 143-148: except Exception -> failure result carrying str(e)
Caught(b) ==
    [raised |-> FALSE, db |-> b.db, insert |-> b.insert,
     success |-> IF b.exc # NoError THEN FALSE ELSE b.success,
     message |-> IF b.exc # NoError THEN Message("error", b.exc, NonDict)
                 ELSE b.message]

process_user_query(db, response, now, ex, cm, unpadded) ==
    Caught(ProcessBody(db, response, now, ex, cm, unpadded))

\* ------------------------------------------------------------- handlers
Welcome == Message("welcome", NoError, NonDict)

\* send_welcome: one fixed reply, nothing else
send_welcome(db, text) ==
    [handler |-> "send_welcome", text |-> text, response |-> CallError,
     process_called |-> FALSE, insert |-> NoInsert, success |-> FALSE,
     message |-> Welcome, raised |-> FALSE, replies |-> <<Welcome>>,
     db |-> db]

\* lines 159-162: reply with the result's message; an exception out of
\* process_user_query would leave the handler before the reply
Reply(text, response, result) ==
    [handler |-> "handle_message", text |-> text, response |-> response,
     process_called |-> TRUE, insert |-> result.insert,
     success |-> result.success, message |-> result.message,
     raised |-> result.raised,
     replies |-> IF result.raised THEN <<>> ELSE <<result.message>>,
     db |-> result.db]

handle_message(db, text, response, now, ex, cm, unpadded) ==
    Reply(text, response, process_user_query(db, response, now, ex, cm, unpadded))

\* ---------------------------------------------------------------- inputs
T_start     == <<"/", "s", "t", "a", "r", "t">>
T_help      == <<"/", "h", "e", "l", "p">>
T_help_bot  == <<"/", "h", "e", "l", "p", "@", "B", "o", "t">>
T_start_arg == <<"/", "s", "t", "a", "r", "t", " ", "x">>
T_started   == <<"/", "s", "t", "a", "r", "t", "e", "d">>
T_plain     == <<"8", "0", " ", "o", "n", " ", "m", "i", "l", "k">>

Texts == {T_start, T_help, T_help_bot, T_start_arg, T_started, T_plain}

D_ok     == <<"1", "7", "/", "0", "1", "/", "2", "0", "2", "6">>
D_short  == <<"1", "/", "1", "/", "2", "0", "2", "6">>
D_feb31  == <<"3", "1", "/", "0", "2", "/", "2", "0", "2", "6">>
D_iso    == <<"2", "0", "2", "6", "-", "0", "1", "-", "1", "7">>
D_trail  == <<"1", "7", "/", "0", "1", "/", "2", "0", "2", "6", " ">>

Milk    == Str(<<"m", "i", "l", "k">>)
Grocery == Str(<<"G", "r", "o", "c", "e", "r", "y">>)

Good(date) == Dict(Fields, Milk, Num(80), Grocery, date)

\* what the model may answer: every way the call or the parse fails, every
\* shape of parsed value the claims distinguish
Responses ==
    {CallError, BadJson, Returned(NonDict), Returned(Dict({}, Null, Null, Null, Null))}
    \cup {Returned(Good(Str(d))) :
            d \in {D_ok, D_short, D_feb31, D_iso, D_trail}}
    \cup {Returned(Good(Null))}
    \cup {Returned([Good(Str(D_ok)) EXCEPT !.has = Fields \ {f}, ![f] = Null]) :
            f \in Fields}
    \cup {Returned([Good(Str(D_ok)) EXCEPT ![f] = Null]) :
            f \in {"expense_name", "amount", "category"}}
    \cup {Returned([Good(Str(D_ok)) EXCEPT !.amount = List])}

\* what the store's execute and commit steps do when a run gets to them:
\* <<execute outcome, commit outcome>> (commit runs only after execute
\* succeeded)
StoreOutcomes ==
    {<<"ok", "ok">>, <<"ok", "busy">>, <<"ok", "rollback">>,
     <<"error", "none">>, <<"rollback", "none">>}

\* ------------------------------------------------------- state machine
NoLast ==
    [handler |-> "none", text |-> <<>>, response |-> CallError,
     process_called |-> FALSE, insert |-> NoInsert, success |-> FALSE,
     message |-> Message("none", NoError, NonDict), raised |-> FALSE,
     replies |-> <<>>,
     before |-> [expenses |-> <<>>, pending |-> <<>>, seq |-> 0,
                 pendingSeq |-> 0, assigned |-> {}]]

NotRun == [done |-> FALSE, ok |-> FALSE, s |-> <<>>]

\* lines 19-31: the table exists and is empty, nothing is pending
Init ==
    /\ expenses = <<>>
    /\ pending = <<>>
    /\ seq = 0
    /\ pendingSeq = 0
    /\ assigned = {}
    /\ clock = 0
    /\ glibcYear \in BOOLEAN
    /\ last = NoLast
    /\ dateIn = <<>>
    /\ dateOut = NotRun

\* the store as the handler found it
Before == [expenses |-> expenses, pending |-> pending, seq |-> seq,
           pendingSeq |-> pendingSeq, assigned |-> assigned]

\* the handling of one message, from its arrival to the handler's return
Handled(o) ==
    /\ expenses' = o.db.expenses
    /\ pending' = o.db.pending
    /\ seq' = o.db.seq
    /\ pendingSeq' = o.db.pendingSeq
    /\ assigned' = assigned \cup ({o.insert.lastrowid} \ {0})
    /\ clock' = clock + 1
    /\ last' = [handler |-> o.handler, text |-> o.text, response |-> o.response,
                process_called |-> o.process_called, insert |-> o.insert,
                success |-> o.success, message |-> o.message,
                raised |-> o.raised, replies |-> o.replies, before |-> Before]
    /\ UNCHANGED <<glibcYear, dateIn, dateOut>>

SendWelcome ==
    \E text \in Texts :
        /\ clock < MaxMessages
        /\ Dispatch(text) = "send_welcome"
        /\ \E o \in {send_welcome(Db, text)} : Handled(o)

\* a run that does not reach the store has no store outcome to choose
HandleMessage ==
    \E text \in Texts :
        /\ clock < MaxMessages
        /\ Dispatch(text) = "handle_message"
        /\ \E response \in Responses, f \in StoreOutcomes :
             \E o \in {handle_message(Db, text, response, clock + 1,
                                      f[1], f[2], glibcYear)} :
                /\ o.insert.ex \in {"none", "bind"} => f = <<"ok", "ok">>
                /\ Handled(o)

Next == SendWelcome \/ HandleMessage

Spec == Init /\ [][Next]_vars

\* ------------------------------------------- date normalisation alone
ModelYears == {999, 1900, 2024, 2026}

ValidDates ==
    {t \in (1..31) \X (1..12) \X ModelYears : t[1] <= DaysInMonth(t[3], t[2])}

\* the ways strptime lets a day and a month be written
DayForms(d) ==
    {Digits(d, 2)} \cup
    (IF d < 10 THEN {Digits(d, 1), <<" ">> \o Digits(d, 1)} ELSE {})

MonthForms(m) == {Digits(m, 2)} \cup (IF m < 10 THEN {Digits(m, 1)} ELSE {})

DMY(df, mf, y) == df \o <<"/">> \o mf \o <<"/">> \o Digits(y, 4)

YMD(d, m, y) == Digits(y, 4) \o <<"-">> \o Digits(m, 2) \o <<"-">> \o Digits(d, 2)

\* every calendar date of the model's years, written day/month/year
DayMonthYearStrings ==
    UNION {{DMY(df, mf, t[3]) : df \in DayForms(t[1]), mf \in MonthForms(t[2])} :
             t \in ValidDates}

\* DD/MM/YYYY strings that name no calendar date
NoSuchDateStrings ==
    {DMY(Digits(d, 2), Digits(m, 2), y) :
        d \in 0..32, m \in 0..13, y \in ModelYears \cup {0}}
    \ DayMonthYearStrings

D_yy == <<"1", "7", "/", "0", "1", "/", "2", "6">>

DateInputs ==
    DayMonthYearStrings \cup NoSuchDateStrings \cup {D_iso, D_trail, D_yy, <<>>}

InitDate ==
    /\ expenses = <<>>
    /\ pending = <<>>
    /\ seq = 0
    /\ pendingSeq = 0
    /\ assigned = {}
    /\ clock = 0
    /\ glibcYear \in BOOLEAN
    /\ last = NoLast
    /\ dateIn \in DateInputs
    /\ dateOut = NotRun

\* lines 97-98 applied to dateIn
NormalizeDate ==
    /\ ~dateOut.done
    /\ \E fd \in {FormattedDate(Str(dateIn), glibcYear)} :
          dateOut' = [done |-> TRUE, ok |-> fd.ok, s |-> fd.s]
    /\ UNCHANGED <<expenses, pending, seq, pendingSeq, assigned, clock,
                   glibcYear, last, dateIn>>

NextDate == NormalizeDate

SpecDate == InitDate /\ [][NextDate]_vars

\* the pattern accepts exactly the day/month/year strings
ParserAcceptsDayMonthYear ==
    dateOut.done => (dateOut.ok <=> dateIn \in DayMonthYearStrings)

\* =============================================================== claims
Ran == last.handler = "handle_message"

\* the extractor returned a value (the call and json.loads both succeeded)
Extracted == Ran /\ last.response.call = "ok" /\ last.response.json

MissingField ==
    ~last.response.data.dict \/ ~(Fields \subseteq last.response.data.has)

Ids(rows) == {rows[i].id : i \in DOMAIN rows}

IsPrefix(a, b) == Len(a) <= Len(b) /\ SubSeq(b, 1, Len(a)) = a

StoreAsBefore ==
    /\ expenses = last.before.expenses
    /\ pending = last.before.pending
    /\ seq = last.before.seq
    /\ pendingSeq = last.before.pendingSeq

\* two digits, "/", two digits, "/", four digits
StrictDDMMYYYY(v) ==
    /\ v.t = "str"
    /\ Len(v.s) = 10
    /\ v.s[3] = "/" /\ v.s[6] = "/"
    /\ \A i \in {1, 2, 4, 5, 7, 8, 9, 10} : IsDigit(v.s[i])

\* a calendar date written day/month/year, day and month in one or two
\* digits (a one-digit day possibly after a space), the year in four
DayMonthYearForm(v) == v.t = "str" /\ v.s \in DayMonthYearStrings

FailedAndNothingWritten ==
    /\ ~last.success
    /\ expenses = last.before.expenses
    /\ pending = last.before.pending

\* C1 (as claimed): a run whose extraction result misses a required field or
\* whose date is not two digits / two digits / four digits returns
\* success = False and leaves the expenses table as it was.
C1_Original ==
    (Extracted /\ (MissingField \/ ~StrictDDMMYYYY(last.response.data.date)))
        => FailedAndNothingWritten

\* C1 (amended): a run whose extraction result misses a required field or
\* whose date is not a calendar date written day/month/year (one- or
\* two-digit day and month, four-digit year) returns success = False and
\* leaves the expenses table, committed and pending rows, as it was.
C1_MalformedExtractionFails ==
    (Extracted /\ (MissingField \/ ~DayMonthYearForm(last.response.data.date)))
        => FailedAndNothingWritten

C1_Witness ==
    /\ Extracted
    /\ ~MissingField
    /\ last.response.data.date = Str(D_iso)
    /\ last.before.expenses # <<>>
    /\ ~last.success

\* C2: every run that returns success = True makes exactly one new row
\* appear in the committed expenses table, with an id no earlier row used,
\* whatever happened in earlier runs.
C2_SuccessAddsExactlyOneRow ==
    (Ran /\ last.success) =>
        /\ Len(expenses) = Len(last.before.expenses) + 1
        /\ IsPrefix(last.before.expenses, expenses)
        /\ expenses[Len(expenses)].id \notin Ids(last.before.expenses)

\* C3: when the extractor raises (the model call fails or its answer does
\* not parse) insert_expense is not called, the result is a failure whose
\* message carries the error, and the store is unchanged.
C3_ExtractionFailureStops ==
    (Ran /\ ~Extracted) =>
        /\ ~last.insert.called
        /\ ~last.success
        /\ last.message.kind = "error"
        /\ last.message.err =
             (IF last.response.call = "error" THEN "APIError" ELSE "JSONDecodeError")
        /\ StoreAsBefore

C3_Witness ==
    /\ Ran
    /\ last.response.call = "error"
    /\ last.before.expenses # <<>>
    /\ last.before.pending # <<>>
    /\ last.message.kind = "error"

\* C4: every message handle_message handles gets exactly one reply, the
\* success acknowledgment or a failure message, and process_user_query
\* does not raise.
C4_OneReplyPerMessage ==
    Ran =>
        /\ ~last.raised
        /\ Len(last.replies) = 1
        /\ last.replies[1] = last.message
        /\ last.message.kind \in {"added", "insert_failed", "error"}
        /\ (last.message.kind = "added") <=> last.success

C4_Witness ==
    /\ Ran
    /\ last.insert.cm = "rollback"
    /\ last.replies = <<Message("insert_failed", NoError, NonDict)>>

\* C5 (as claimed): all rows have pairwise distinct ids and every INSERT
\* hands out an id strictly greater than every id handed out before it.
C5_Original ==
    /\ \A i, j \in DOMAIN Table(Db) : i # j => Table(Db)[i].id # Table(Db)[j].id
    /\ last.insert.lastrowid # 0 =>
           \A a \in last.before.assigned : last.insert.lastrowid > a

\* C5 (amended): all rows of the table, committed or pending, have pairwise
\* distinct ids, and every INSERT hands out an id strictly greater than the
\* id of every row then in the table and of every row ever committed (an
\* id whose row a failure rolled back is handed out again).
C5_IdsDistinctAndIncreasing ==
    /\ \A i, j \in DOMAIN Table(Db) : i # j => Table(Db)[i].id # Table(Db)[j].id
    /\ last.insert.lastrowid # 0 =>
           /\ last.insert.lastrowid > last.before.seq
           /\ \A a \in Ids(last.before.expenses \o last.before.pending) :
                 last.insert.lastrowid > a

C5_Witness ==
    /\ last.insert.lastrowid # 0
    /\ last.before.expenses # <<>>
    /\ last.before.pending # <<>>
    /\ Len(Table(Db)) = 3

\* C6: a committed row is never removed and never changes, whatever
\* message is handled next.
C6_AppendOnly ==
    last.handler # "none" => IsPrefix(last.before.expenses, expenses)

C6_Witness ==
    /\ Ran
    /\ last.insert.cm = "rollback"
    /\ last.before.expenses # <<>>
    /\ last.before.pending # <<>>
    /\ pending = <<>>

StorageFailure ==
    \/ last.insert.ex \in {"bind", "error", "rollback"}
    \/ last.insert.cm \in {"busy", "rollback"}

\* C7: insert_expense never raises; on any error (input shape, date,
\* execute, commit) it returns False, and the run then answers with the
\* fixed storage-failure message, not through the generic handler.
C7_StoreNeverRaises ==
    (Ran /\ last.insert.called) =>
        /\ ~last.insert.raised
        /\ ~last.raised
        /\ (MissingField \/ ~DayMonthYearForm(last.response.data.date)
              \/ StorageFailure)
             => (~last.insert.ret /\ last.message.kind = "insert_failed")
        /\ last.message.kind # "error"

C7_Witness ==
    /\ Ran
    /\ last.insert.called
    /\ last.insert.cm = "busy"
    /\ ~last.insert.ret
    /\ last.message.kind = "insert_failed"

\* C8: every committed row has all six fields populated.
C8_AllFieldsPopulated ==
    \A i \in DOMAIN expenses :
        /\ expenses[i].id > 0
        /\ expenses[i].expense_name.t # "null"
        /\ expenses[i].amount.t # "null"
        /\ expenses[i].category.t # "null"
        /\ expenses[i].date # <<>>
        /\ expenses[i].logged_at > 0

HelpOnly ==
    /\ last.handler = "send_welcome"
    /\ last.replies = <<Welcome>>
    /\ ~last.process_called
    /\ ~last.insert.called
    /\ StoreAsBefore

Piped == last.handler = "handle_message" /\ last.process_called

\* the text starts with /start or /help, and the command ends there, at a
\* space or at an "@"
StartsWithHelpCommand(text) ==
    \E c \in {T_start, T_help} :
        /\ Len(text) >= Len(c)
        /\ SubSeq(text, 1, Len(c)) = c
        /\ Len(text) = Len(c) \/ text[Len(c) + 1] \in {" ", "@"}

\* C9 (as claimed): a message whose text is /start or /help gets the help
\* reply only; every other text goes through process_user_query.
C9_Original ==
    last.handler # "none" =>
        IF last.text \in {T_start, T_help} THEN HelpOnly ELSE Piped

\* C9 (amended): a message whose first word is /start or /help, bare, with
\* an @name suffix or followed by more text, gets the help reply only:
\* process_user_query is not called and the store is unchanged; every
\* other text goes through process_user_query.
C9_CommandsGetHelpOnly ==
    last.handler # "none" =>
        IF StartsWithHelpCommand(last.text) THEN HelpOnly ELSE Piped

C9_Witness ==
    /\ last.handler = "send_welcome"
    /\ last.text = T_start_arg
    /\ last.before.expenses # <<>>
    /\ last.replies = <<Welcome>>

\* every calendar date of the model's years as a DD/MM/YYYY string, with
\* the YYYY-MM-DD string of the same date
StrictDates ==
    {[s   |-> DMY(Digits(t[1], 2), Digits(t[2], 2), t[3]),
      ymd |-> YMD(t[1], t[2], t[3])] : t \in ValidDates}

\* a YYYY-MM-DD string written back as DD/MM/YYYY
BackToDMY(s) ==
    IF Len(s) = 10 /\ s[5] = "-" /\ s[8] = "-"
    THEN SubSeq(s, 9, 10) \o <<"/">> \o SubSeq(s, 6, 7) \o <<"/">> \o SubSeq(s, 1, 4)
    ELSE <<>>

\* C10: for every calendar date given as a DD/MM/YYYY string the stored
\* string is the YYYY-MM-DD string of the same date, and writing it back
\* as DD/MM/YYYY gives the original.
C10_RoundTrip ==
    dateOut.done =>
        \A r \in StrictDates :
            r.s = dateIn =>
                /\ dateOut.ok
                /\ dateOut.s = r.ymd
                /\ BackToDMY(dateOut.s) = dateIn

====
